---- MODULE Spec2Model ----
(***************************************************************************)
(* Model of jeroiraz/backr: the circular byte buffer of package backbuf    *)
(* (src/backbuf/backbuf.go) and the backward Reader of package goback      *)
(* (src/unnamed/part_000) that stages chunks of a random-access source     *)
(* in it.                                                                  *)
(*                                                                         *)
(* Go slices are 0-based and half-open; TLA+ sequences are 1-based.  The   *)
(* Go expression s[lo:hi] is Slice(s, lo, hi), and cell i of a Go slice is *)
(* element i + 1 of the sequence that models it.                           *)
(***************************************************************************)
EXTENDS Integers, Sequences, FiniteSets, TLC

----------------------------------------------------------------------------
(* Bounds of the model. *)

\* longest source content
MaxLen == 5
\* largest buffer capacity
MaxCap == 3
\* longest output slice handed to Reader.Read / Reader.ReadAt
MaxOut == 6
\* largest capacity, longest input and longest output of the buffer-only runs
MaxBufCap == 3
MaxIn == 3
\* number of distinct byte values written in the buffer-only runs
NumBytes == 2
\* longest content of a source that fails
MaxFaultLen == 4

----------------------------------------------------------------------------
(* Program constants. *)

minSize == 1
minBufSize == 1

(* Error values.  The goback errors are package variables; the backbuf     *)
(* errors are built by fmt.Errorf and are told apart by their text.        *)
NoErr == "nil"
ErrInvalidArguments == "goback: invalid arguments"
ErrNoContent == "goback: no content to be read"
ErrInternal == "goback: unexpected internal error"
ErrSize == "Size must be greater than 1"
ErrInputEmpty == "Input buffer is null or empty"
ErrBufferFull == "Buffer is full"
ErrTargetEmpty == "Target buffer is null or empty"
ErrBufferEmpty == "Buffer is empty"
ErrPositive == "Positive number required"
ErrNotEnough == "Not enough unread data"
\* a run-time panic (slice bounds out of range)
Panic == "panic"

----------------------------------------------------------------------------
(* Go slice primitives. *)

\* mutant: no clamp, the second operand is returned
min_Second(x, y) == y

min(x, y) == IF x < y THEN x ELSE y

\* make([]byte, n)
Zeros(n) == [k \in 1..n |-> 0]

\* whether s[lo:hi] is a legal slice expression of a slice of length len
ValidSlice(lo, hi, len) == 0 <= lo /\ lo <= hi /\ hi <= len

\* s[lo:hi]
Slice(s, lo, hi) == [k \in 1..(hi - lo) |-> s[lo + k]]

\* copy(dst[lo:hi], from): the first min(hi - lo, len(from)) bytes are copied
CopyInto(dst, lo, hi, from) ==
  LET n == min(hi - lo, Len(from))
  IN  [i \in 1..Len(dst) |-> IF i > lo /\ i <= lo + n THEN from[i - lo] ELSE dst[i]]

----------------------------------------------------------------------------
(* package backbuf: Buffer.  A buffer value is a record                    *)
(*   [buffer |-> <<bytes>>, wpos |-> int, rpos |-> int, full |-> BOOLEAN]. *)

Size(cb) == Len(cb.buffer)

Reset(cb) ==
  [cb EXCEPT !.wpos = Len(cb.buffer), !.rpos = Len(cb.buffer), !.full = FALSE]

\* New returns [cb, err]; cb is meaningful only when err is NoErr
New(size) ==
  IF size < minSize
  THEN [cb |-> [buffer |-> <<>>, wpos |-> 0, rpos |-> 0, full |-> FALSE], err |-> ErrSize]
  ELSE [cb |-> Reset([buffer |-> Zeros(size), wpos |-> 0, rpos |-> 0, full |-> FALSE]),
        err |-> NoErr]

\* mutant: the full flag is not consulted
WriteAvailability_IgnoreFull(cb) ==
  IF cb.wpos <= cb.rpos THEN Len(cb.buffer) - cb.rpos + cb.wpos
  ELSE cb.wpos - cb.rpos

WriteAvailability(cb) ==
  IF cb.full THEN 0
  ELSE IF cb.wpos <= cb.rpos THEN Len(cb.buffer) - cb.rpos + cb.wpos
  ELSE cb.wpos - cb.rpos

\* mutant: the unread bytes are counted from the positions alone, so that a
\* full buffer counts as an empty one
ReadAvailability_NoFull(cb) ==
  IF cb.wpos <= cb.rpos THEN cb.rpos - cb.wpos
  ELSE Len(cb.buffer) - cb.wpos + cb.rpos

ReadAvailability(cb) == Len(cb.buffer) - WriteAvailability(cb)

\* Buffer.Write(buf) returns [cb, n, err, cells]; cells are the indices of the
\* storage cells the call's copy statements stored into
Write(cb, buf) ==
  IF Len(buf) = 0 THEN [cb |-> cb, n |-> 0, err |-> ErrInputEmpty, cells |-> {}]
  ELSE
  LET toWrite == min(WriteAvailability(cb), Len(buf))
      size == Len(cb.buffer)
      straight == cb.wpos > cb.rpos \/ toWrite < cb.wpos
  IN
  IF toWrite = 0 THEN [cb |-> cb, n |-> 0, err |-> ErrBufferFull, cells |-> {}]
  ELSE IF straight
  THEN \* lines 74-76 and 83-84: one run ending at wpos
       IF ~ (ValidSlice(cb.wpos - toWrite, cb.wpos, size) /\ ValidSlice(0, toWrite, Len(buf)))
       THEN [cb |-> cb, n |-> 0, err |-> Panic, cells |-> {}]
       ELSE LET nw == cb.wpos - toWrite
            IN  [cb |-> [buffer |-> CopyInto(cb.buffer, cb.wpos - toWrite, cb.wpos,
                                             Slice(buf, 0, toWrite)),
                         wpos |-> nw, rpos |-> cb.rpos, full |-> (nw = cb.rpos)],
                 n |-> toWrite, err |-> NoErr, cells |-> nw..(cb.wpos - 1)]
  ELSE \* lines 78-80: the run crosses index 0
       IF ~ (ValidSlice(0, cb.wpos, size) /\ ValidSlice(0, cb.wpos, Len(buf)))
       THEN [cb |-> cb, n |-> 0, err |-> Panic, cells |-> {}]
       ELSE
       LET first == CopyInto(cb.buffer, 0, cb.wpos, Slice(buf, 0, cb.wpos))
           nw == size - toWrite + cb.wpos
       IN  IF ~ (ValidSlice(nw, size, size) /\ ValidSlice(cb.wpos, toWrite, Len(buf)))
           THEN [cb |-> [cb EXCEPT !.buffer = first], n |-> 0, err |-> Panic,
                 cells |-> 0..(cb.wpos - 1)]
           ELSE [cb |-> [buffer |-> CopyInto(first, nw, size, Slice(buf, cb.wpos, toWrite)),
                         wpos |-> nw, rpos |-> cb.rpos, full |-> (nw = cb.rpos)],
                 n |-> toWrite, err |-> NoErr,
                 cells |-> (0..(cb.wpos - 1)) \cup (nw..(size - 1))]

\* Buffer.Read(buf) returns [cb, buf, n, err, cells]; buf is the target slice as
\* the call leaves it, cells are the indices of the storage cells copied out
Read(cb, buf) ==
  IF Len(buf) = 0
  THEN [cb |-> cb, buf |-> buf, n |-> 0, err |-> ErrTargetEmpty, cells |-> {}]
  ELSE
  LET toRead == min(Len(buf), ReadAvailability(cb))
      size == Len(cb.buffer)
      lBytes == min(cb.rpos, toRead)
  IN
  IF ~ (ValidSlice(toRead - lBytes, toRead, Len(buf))
        /\ ValidSlice(cb.rpos - lBytes, cb.rpos, size))
  THEN [cb |-> cb, buf |-> buf, n |-> 0, err |-> Panic, cells |-> {}]
  ELSE
  LET low == CopyInto(buf, toRead - lBytes, toRead, Slice(cb.buffer, cb.rpos - lBytes, cb.rpos))
  IN
  IF toRead > lBytes
  THEN LET rBytes == toRead - lBytes
       IN  IF ~ (ValidSlice(0, rBytes, Len(buf)) /\ ValidSlice(size - rBytes, size, size))
           THEN [cb |-> cb, buf |-> low, n |-> 0, err |-> Panic,
                 cells |-> (cb.rpos - lBytes)..(cb.rpos - 1)]
           ELSE [cb |-> [cb EXCEPT !.rpos = size - rBytes, !.full = FALSE],
                 buf |-> CopyInto(low, 0, rBytes, Slice(cb.buffer, size - rBytes, size)),
                 n |-> toRead, err |-> NoErr,
                 cells |-> ((cb.rpos - lBytes)..(cb.rpos - 1)) \cup ((size - rBytes)..(size - 1))]
  ELSE [cb |-> [cb EXCEPT !.rpos = cb.rpos - lBytes, !.full = FALSE],
        buf |-> low, n |-> toRead, err |-> NoErr,
        cells |-> (cb.rpos - lBytes)..(cb.rpos - 1)]

\* Buffer.ReadByte() returns [cb, byte, err]
ReadByte(cb) ==
  LET r == Read(cb, Zeros(1))
  IN  IF r.err # NoErr THEN [cb |-> r.cb, byte |-> 0, err |-> r.err]
      ELSE IF r.n = 0 THEN [cb |-> r.cb, byte |-> 0, err |-> ErrBufferEmpty]
      ELSE [cb |-> r.cb, byte |-> r.buf[1], err |-> NoErr]

\* mutant: the read position is lowered without wrapping
Omit_NoWrap(cb, n) ==
  IF n < 1 THEN [cb |-> cb, err |-> ErrPositive]
  ELSE IF ReadAvailability(cb) < n THEN [cb |-> cb, err |-> ErrNotEnough]
  ELSE [cb |-> [cb EXCEPT !.rpos = cb.rpos - n, !.full = FALSE], err |-> NoErr]

\* Buffer.Omit(n) returns [cb, err]
Omit(cb, n) ==
  IF n < 1 THEN [cb |-> cb, err |-> ErrPositive]
  ELSE IF ReadAvailability(cb) < n THEN [cb |-> cb, err |-> ErrNotEnough]
  ELSE IF cb.rpos <= n
  THEN [cb |-> [cb EXCEPT !.rpos = Len(cb.buffer) - n + cb.rpos, !.full = FALSE], err |-> NoErr]
  ELSE [cb |-> [cb EXCEPT !.rpos = cb.rpos - n, !.full = FALSE], err |-> NoErr]

----------------------------------------------------------------------------
(* package goback: the source.  InMemReader is the RndReader of the        *)
(* package's tests: a value [buf |-> <<bytes>>].                           *)

\* InMemReader.ReadAt(b, off) returns [b, n, err]
InMemReaderReadAt(src, b, o) ==
  LET rs == min(Len(src.buf) - o, Len(b))
  IN  IF ~ (ValidSlice(0, rs, Len(b)) /\ ValidSlice(o, o + rs, Len(src.buf)))
      THEN [b |-> b, n |-> 0, err |-> Panic]
      ELSE [b |-> CopyInto(b, 0, rs, Slice(src.buf, o, o + rs)),
            n |-> rs,
            err |-> IF Len(b) < rs THEN ErrNoContent ELSE NoErr]

\* the error of a source that fails
ErrSource == "source: read failed"

\* A source that fails: [buf |-> <<bytes>>, bad |-> {offsets}], bad being the
\* offsets of the bytes that cannot be read.  Its ReadAt copies the bytes that
\* come before the first bad offset of the range and returns their number and
\* ErrSource; a range without a bad offset is read as InMemReader reads it.
FaultyReaderReadAt(src, b, o) ==
  LET hit == {k \in o..(o + Len(b) - 1) : k \in src.bad}
      rs == IF hit = {} THEN 0
            ELSE (CHOOSE k \in hit : \A j \in hit : k <= j) - o
  IN  IF hit = {} THEN InMemReaderReadAt([buf |-> src.buf], b, o)
      ELSE IF ~ (ValidSlice(0, rs, Len(b)) /\ ValidSlice(o, o + rs, Len(src.buf)))
      THEN [b |-> b, n |-> 0, err |-> Panic]
      ELSE [b |-> CopyInto(b, 0, rs, Slice(src.buf, o, o + rs)), n |-> rs,
            err |-> ErrSource]

\* r.ir.ReadAt(b, o): the call through the RndReader interface
SourceReadAt(src, b, o) ==
  IF "bad" \in DOMAIN src THEN FaultyReaderReadAt(src, b, o)
  ELSE InMemReaderReadAt(src, b, o)

----------------------------------------------------------------------------
(* package goback: Reader.  A reader value is a record                     *)
(*   [ir |-> source, off |-> int, buf |-> buffer value].                   *)

\* NewReader returns [r, err]; r is meaningful only when err is NoErr
NewReader(src, o, bufSize) ==
  LET none == [ir |-> src, off |-> 0, buf |-> New(0).cb]
  IN  IF bufSize < minBufSize THEN [r |-> none, err |-> ErrInvalidArguments]
      ELSE LET b == New(bufSize)
           IN  IF b.err # NoErr THEN [r |-> none, err |-> b.err]
               ELSE [r |-> [ir |-> src, off |-> o, buf |-> b.cb], err |-> NoErr]

Offset(r) == r.off + ReadAvailability(r.buf)

\* mutant: the tracked offset is not moved to the start of the fetched window
FetchStore_KeepOff(r, roff, call, s, w) ==
  IF w.err # NoErr THEN [r |-> [r EXCEPT !.buf = w.cb], err |-> w.err, fetch |-> <<call>>]
  ELSE IF s.n # w.n
  THEN [r |-> [r EXCEPT !.buf = w.cb], err |-> ErrInternal, fetch |-> <<call>>]
  ELSE [r |-> [r EXCEPT !.buf = w.cb], err |-> NoErr,
        fetch |-> <<[call EXCEPT !.ok = TRUE, !.ra1 = ReadAvailability(w.cb)]>>]

\* Lines 144-153 of Reader.Read: the fetched bytes s (the result of the
\* source's ReadAt) are written to the buffer and the offset moves to roff.
FetchStore(r, roff, call, s, w) ==
  IF w.err # NoErr THEN [r |-> [r EXCEPT !.buf = w.cb], err |-> w.err, fetch |-> <<call>>]
  ELSE IF s.n # w.n
  THEN [r |-> [r EXCEPT !.buf = w.cb], err |-> ErrInternal, fetch |-> <<call>>]
  ELSE [r |-> [r EXCEPT !.buf = w.cb, !.off = roff], err |-> NoErr,
        fetch |-> <<[call EXCEPT !.ok = TRUE, !.off1 = roff,
                                 !.ra1 = ReadAvailability(w.cb)]>>]

\* mutant: the error of the source is dropped
Fetched_IgnoreErr(r, roff, call, s) ==
  IF ~ ValidSlice(0, s.n, call.size) THEN [r |-> r, err |-> Panic, fetch |-> <<call>>]
  ELSE FetchStore(r, roff, call, s, Write(r.buf, Slice(s.b, 0, s.n)))

\* Lines 138-144 of Reader.Read: s is the result of the source's ReadAt
Fetched(r, roff, call, s) ==
  IF s.err # NoErr THEN [r |-> r, err |-> s.err, fetch |-> <<call>>]
  ELSE IF ~ ValidSlice(0, s.n, call.size) THEN [r |-> r, err |-> Panic, fetch |-> <<call>>]
  ELSE FetchStore(r, roff, call, s, Write(r.buf, Slice(s.b, 0, s.n)))

\* Lines 131-153 of Reader.Read: one refill of the exhausted buffer from the
\* window that ends at r.off.  Returns [r, err, fetch]; fetch records the call
\* made to the source: the size and the offset asked for, the tracked offset
\* and ReadAvailability() when it was made, the buffer it found, whether the
\* refill was completed, and the tracked offset and ReadAvailability() it left.
FetchCall(r, maxReadSize, roff) ==
  [size |-> maxReadSize, at |-> roff, tracked |-> r.off,
   ra |-> ReadAvailability(r.buf), cb |-> r.buf, ok |-> FALSE,
   off1 |-> r.off, ra1 |-> ReadAvailability(r.buf)]

\* mutant: the window is the capacity, whatever the tracked offset
Fetch_WholeCapacity(r) ==
  Fetched(r, r.off - Size(r.buf), FetchCall(r, Size(r.buf), r.off - Size(r.buf)),
          SourceReadAt(r.ir, Zeros(Size(r.buf)), r.off - Size(r.buf)))

Fetch(r) ==
  LET maxReadSize == IF r.off < Size(r.buf) THEN r.off ELSE Size(r.buf)
      roff == r.off - maxReadSize
  IN  IF maxReadSize < 0 THEN [r |-> r, err |-> Panic, fetch |-> <<>>]
      ELSE Fetched(r, roff, FetchCall(r, maxReadSize, roff),
                   SourceReadAt(r.ir, Zeros(maxReadSize), roff))

\* Lines 129-168 of Reader.Read: the loop, from the iteration that starts with
\* `read` bytes placed.  Returns [r, b, n, err, fetches, iters].
RECURSIVE ReadLoop(_, _, _, _, _, _)

\* Lines 159-167: d is the result of the buffer's Read into b[lo:hi]
Drained(r, b, toRead, read, fetches, iters, rs, lo, d) ==
  IF d.err # NoErr
  THEN [r |-> [r EXCEPT !.buf = d.cb], b |-> CopyInto(b, lo, lo + rs, d.buf), n |-> 0,
        err |-> d.err, fetches |-> fetches, iters |-> iters]
  ELSE IF d.n # rs
  THEN [r |-> [r EXCEPT !.buf = d.cb], b |-> CopyInto(b, lo, lo + rs, d.buf), n |-> 0,
        err |-> ErrInternal, fetches |-> fetches, iters |-> iters]
  ELSE ReadLoop([r EXCEPT !.buf = d.cb], CopyInto(b, lo, lo + rs, d.buf), toRead,
                read + rs, fetches, iters)

\* mutant: each drained run is placed after the earlier ones, in b[read : read+rs]
Drain_Append(r, b, toRead, read, fetches, iters, rs) ==
  IF ~ ValidSlice(read, read + rs, Len(b))
  THEN [r |-> r, b |-> b, n |-> 0, err |-> Panic, fetches |-> fetches, iters |-> iters]
  ELSE Drained(r, b, toRead, read, fetches, iters, rs, read,
               Read(r.buf, Slice(b, read, read + rs)))

\* Lines 156-157: rs bytes are drained into b[toRead-read-rs : toRead-read]
Drain(r, b, toRead, read, fetches, iters, rs) ==
  IF ~ ValidSlice(toRead - read - rs, toRead - read, Len(b))
  THEN [r |-> r, b |-> b, n |-> 0, err |-> Panic, fetches |-> fetches, iters |-> iters]
  ELSE Drained(r, b, toRead, read, fetches, iters, rs, toRead - read - rs,
               Read(r.buf, Slice(b, toRead - read - rs, toRead - read)))

\* mutant: an iteration drains all the buffer holds, whatever is left to read
Filled_NoClamp(fill, b, toRead, read, fetches, iters) ==
  IF fill.err # NoErr
  THEN [r |-> fill.r, b |-> b, n |-> 0, err |-> fill.err,
        fetches |-> fetches \o fill.fetch, iters |-> iters]
  ELSE Drain(fill.r, b, toRead, read, fetches \o fill.fetch, iters,
             ReadAvailability(fill.r.buf))

\* Lines 140-156: fill is the result of the refill, if one was needed
Filled(fill, b, toRead, read, fetches, iters) ==
  IF fill.err # NoErr
  THEN [r |-> fill.r, b |-> b, n |-> 0, err |-> fill.err,
        fetches |-> fetches \o fill.fetch, iters |-> iters]
  ELSE Drain(fill.r, b, toRead, read, fetches \o fill.fetch, iters,
             min(toRead - read, ReadAvailability(fill.r.buf)))

ReadLoop(r, b, toRead, read, fetches, iters) ==
  IF read = toRead
  THEN [r |-> r, b |-> b, n |-> read,
        err |-> IF read < Len(b) THEN ErrNoContent ELSE NoErr,
        fetches |-> fetches, iters |-> iters]
  ELSE Filled(IF ReadAvailability(r.buf) = 0 THEN Fetch(r)
              ELSE [r |-> r, err |-> NoErr, fetch |-> <<>>],
              b, toRead, read, fetches, iters + 1)

\* mutant: the request is not clamped to Offset()
ReaderRead_NoClamp(r, b) ==
  IF Len(b) = 0
  THEN [r |-> r, b |-> b, n |-> 0, err |-> ErrInvalidArguments, fetches |-> <<>>, iters |-> 0]
  ELSE ReadLoop(r, b, Len(b), 0, <<>>, 0)

\* mutant: an empty output slice is not refused
ReaderRead_NoCheck(r, b) ==
  ReadLoop(r, b, IF Len(b) > Offset(r) THEN Offset(r) ELSE Len(b), 0, <<>>, 0)

\* Reader.Read(b) returns [r, b, n, err, fetches, iters]
ReaderRead(r, b) ==
  IF Len(b) = 0
  THEN [r |-> r, b |-> b, n |-> 0, err |-> ErrInvalidArguments, fetches |-> <<>>, iters |-> 0]
  ELSE ReadLoop(r, b, IF Len(b) > Offset(r) THEN Offset(r) ELSE Len(b), 0, <<>>, 0)

\* mutant: the staged bytes are kept whatever the target
Reposition_KeepStaged(r, o) == [r EXCEPT !.off = o]

\* Lines 102-111 of Reader.ReadAt: the repositioning.  The error of Omit is
\* dropped by the code.
Reposition(r, o) ==
  LET nb == IF o < r.off THEN Reset(r.buf)
            ELSE IF o > r.off + ReadAvailability(r.buf) THEN Reset(r.buf)
            ELSE Omit(r.buf, o - r.off).cb
  IN  [r EXCEPT !.buf = nb, !.off = o]

\* Reader.ReadAt(b, off) returns [r, b, n, err, fetches, iters]
ReaderReadAt(r, b, o) == ReaderRead(Reposition(r, o), b)

----------------------------------------------------------------------------
(* State.  The specifications share the variables:                         *)
(*   Spec      a Reader over an in-memory source, called through Read and   *)
(*             ReadAt;                                                      *)
(*   SpecFault the same calls, over a source that fails;                    *)
(*   SpecBuf   a Buffer alone, called through Reset, Write, Read, ReadByte  *)
(*             and Omit;                                                    *)
(*   SpecBoth  the runs of Spec and the runs of SpecBuf;                    *)
(*   SpecChunk the two passes of TestReaderRecoverEquals.                   *)
(* A call is one step: it changes the object and leaves in `last` what the  *)
(* caller gets back; the step Return is the caller going on to its next     *)
(* call.                                                                    *)

VARIABLES
  ir,        \* Reader.ir: the source, [buf |-> content]
  off,       \* Reader.off
  buffer,    \* Buffer.buffer
  wpos,      \* Buffer.wpos
  rpos,      \* Buffer.rpos
  full,      \* Buffer.full
  last,      \* the call whose results the caller holds: its name, arguments,
             \* results and the values it found; op is "none" between calls
  history,   \* history: "new" before the first call, "read" while the reader has
             \* been used through Read only, "readat" once ReadAt was called
  rb,        \* history: the bytes returned by the Reads so far, each run placed
             \* before the earlier ones (the output of TestReaderReverse)
  Q,         \* history: the bytes accepted by Write and not yet consumed, newest first
  unread,    \* history: the storage cells that hold an unread byte
  pc,        \* the run: "reader", "faulty" or "buffer"; in SpecChunk the
             \* position in TestReaderRecoverEquals
  chunkSpec, \* TestReaderRecoverEquals: the chunk sizes
  bufSizes,  \* TestReaderRecoverEquals: the capacities of the two readers
  source,    \* TestReaderRecoverEquals: b, the content of the first source
  rb1,       \* TestReaderRecoverEquals: output of the first pass
  rb2        \* TestReaderRecoverEquals: output of the second pass

vars == <<ir, off, buffer, wpos, rpos, full, last, history, rb, Q, unread,
          pc, chunkSpec, bufSizes, source, rb1, rb2>>

bufferVars == <<buffer, wpos, rpos, full>>
historyVars == <<Q, unread>>
testVars == <<pc, chunkSpec, bufSizes, source, rb1, rb2>>

\* the Buffer and the Reader held by the variables
cbNow == [buffer |-> buffer, wpos |-> wpos, rpos |-> rpos, full |-> full]
rNow == [ir |-> ir, off |-> off, buf |-> cbNow]

SetBuffer(cb) ==
  /\ buffer' = cb.buffer
  /\ wpos' = cb.wpos
  /\ rpos' = cb.rpos
  /\ full' = cb.full

SetReader(r) ==
  /\ ir' = r.ir
  /\ off' = r.off
  /\ SetBuffer(r.buf)

\* the value of last between two calls
NoCall ==
  [op |-> "none",          \* the method called
   arg |-> <<>>,           \* Buffer.Write: the input slice
   len |-> 0,              \* the length of the output slice; Buffer.Omit: n
   t |-> 0,                \* Reader.ReadAt: the target offset
   n |-> 0,                \* the count returned
   err |-> NoErr,          \* the error returned
   out |-> <<>>,           \* the output slice after the call
   off0 |-> 0,             \* Reader.off before the call
   ra0 |-> 0,              \* ReadAvailability() before the call
   offset0 |-> 0,          \* Offset() before the call
   history0 |-> "new",     \* history before the call
   cb0 |-> New(1).cb,      \* the Buffer before the call
   mid |-> New(1).cb,      \* Reader.ReadAt: the Buffer after the repositioning
   fetches |-> <<>>,       \* the calls made to the source
   iters |-> 0,            \* the iterations of the loop of Reader.Read
   cells |-> {},           \* Buffer: the cells stored into or copied out
   q0 |-> <<>>,            \* Q before the call
   unread0 |-> {}]         \* unread before the call

\* between two calls; the program stops at a panic
Idle == last.op = "none"

\* the caller is done with the results of the last call
Return ==
  /\ ~ Idle
  /\ last.err # Panic
  /\ last' = NoCall
  /\ UNCHANGED <<ir, off, bufferVars, history, rb, historyVars, testVars>>

\* Source contents: one per length, of distinct non-zero bytes (randomBytes of
\* the tests draws non-zero bytes).  No statement of either package reads the
\* value of a byte, so distinct bytes tell every misplacement apart; 0 is the
\* byte of a cell that was never stored into.
Sources == {[i \in 1..l |-> i] : l \in 1..MaxLen}

----------------------------------------------------------------------------
(* The reader over an in-memory source: NewReader at the end of the source, *)
(* then any sequence of Read and ReadAt calls.                              *)

Init ==
  /\ \E S \in Sources, bufSize \in 1..MaxCap :
       LET nr == NewReader([buf |-> S], Len(S), bufSize)
       IN  /\ nr.err = NoErr
           /\ ir = nr.r.ir
           /\ off = nr.r.off
           /\ buffer = nr.r.buf.buffer
           /\ wpos = nr.r.buf.wpos
           /\ rpos = nr.r.buf.rpos
           /\ full = nr.r.buf.full
           /\ last = NoCall
  /\ history = "new"
  /\ rb = <<>>
  /\ Q = <<>>
  /\ unread = {}
  /\ pc = "reader"
  /\ chunkSpec = <<>>
  /\ bufSizes = <<>>
  /\ source = <<>>
  /\ rb1 = <<>>
  /\ rb2 = <<>>

\* reader.Read(make([]byte, n))
ReadCall ==
  /\ Idle
  /\ \E n \in 0..MaxOut : \E res \in {ReaderRead(rNow, Zeros(n))} :
           /\ SetReader(res.r)
           /\ last' = [NoCall EXCEPT
                       !.op = "Read", !.len = n, !.n = res.n, !.err = res.err,
                       !.out = res.b, !.off0 = off, !.ra0 = ReadAvailability(cbNow),
                       !.offset0 = Offset(rNow), !.history0 = history, !.cb0 = cbNow,
                       !.mid = cbNow, !.fetches = res.fetches, !.iters = res.iters]
           /\ rb' = IF history # "readat" /\ res.err \in {NoErr, ErrNoContent}
                    THEN Slice(res.b, 0, res.n) \o rb ELSE rb
  /\ history' = IF history = "new" THEN "read" ELSE history
  /\ UNCHANGED <<historyVars, testVars>>

\* reader.ReadAt(make([]byte, n), t)
ReadAtCall ==
  /\ Idle
  /\ \E n \in 0..MaxOut, t \in 0..Len(ir.buf) : \E res \in {ReaderReadAt(rNow, Zeros(n), t)} :
           /\ SetReader(res.r)
           /\ last' = [NoCall EXCEPT
                       !.op = "ReadAt", !.len = n, !.t = t, !.n = res.n, !.err = res.err,
                       !.out = res.b, !.off0 = off, !.ra0 = ReadAvailability(cbNow),
                       !.offset0 = Offset(rNow), !.history0 = history, !.cb0 = cbNow,
                       !.mid = Reposition(rNow, t).buf,
                       !.fetches = res.fetches, !.iters = res.iters]
  /\ history' = "readat"
  /\ rb' = <<>>
  /\ UNCHANGED <<historyVars, testVars>>

Next == ReadCall \/ ReadAtCall \/ Return

Spec == Init /\ [][Next]_vars

----------------------------------------------------------------------------
(* The reader over a source that fails: one byte of the source cannot be    *)
(* read.  The calls are those of Spec.                                      *)

InitFault ==
  /\ \E S \in Sources, bufSize \in 1..MaxCap : \E k \in 0..(Len(S) - 1) :
       LET nr == NewReader([buf |-> S, bad |-> {k}], Len(S), bufSize)
       IN  /\ Len(S) <= MaxFaultLen
           /\ nr.err = NoErr
           /\ ir = nr.r.ir
           /\ off = nr.r.off
           /\ buffer = nr.r.buf.buffer
           /\ wpos = nr.r.buf.wpos
           /\ rpos = nr.r.buf.rpos
           /\ full = nr.r.buf.full
           /\ last = NoCall
  /\ history = "new"
  /\ rb = <<>>
  /\ Q = <<>>
  /\ unread = {}
  /\ pc = "faulty"
  /\ chunkSpec = <<>>
  /\ bufSizes = <<>>
  /\ source = <<>>
  /\ rb1 = <<>>
  /\ rb2 = <<>>

SpecFault == InitFault /\ [][Next]_vars

----------------------------------------------------------------------------
(* The buffer alone: New, then any sequence of Reset, Write, Read, ReadByte *)
(* and Omit calls.                                                          *)

\* the input slices of Write: every sequence of at most MaxIn bytes
Inputs == UNION {[1..l -> 1..NumBytes] : l \in 0..MaxIn}

\* s without its last n elements, and the last n elements of s
DropLast(s, n) == Slice(s, 0, Len(s) - min(n, Len(s)))
Last(s, n) == Slice(s, Len(s) - min(n, Len(s)), Len(s))

InitBuf ==
  /\ \E size \in 1..MaxBufCap :
       LET nb == New(size)
       IN  /\ nb.err = NoErr
           /\ buffer = nb.cb.buffer
           /\ wpos = nb.cb.wpos
           /\ rpos = nb.cb.rpos
           /\ full = nb.cb.full
  /\ ir = [buf |-> <<>>]
  /\ off = 0
  /\ last = NoCall
  /\ history = "new"
  /\ rb = <<>>
  /\ Q = <<>>
  /\ unread = {}
  /\ pc = "buffer"
  /\ chunkSpec = <<>>
  /\ bufSizes = <<>>
  /\ source = <<>>
  /\ rb1 = <<>>
  /\ rb2 = <<>>

\* what a Buffer call records of the state it found
BufCall(op) ==
  [NoCall EXCEPT !.op = op, !.ra0 = ReadAvailability(cbNow), !.cb0 = cbNow,
                 !.q0 = Q, !.unread0 = unread]

\* cb.Reset()
ResetCall ==
  /\ Idle
  /\ SetBuffer(Reset(cbNow))
  /\ last' = BufCall("Buffer.Reset")
  /\ Q' = <<>>
  /\ unread' = {}
  /\ UNCHANGED <<ir, off, history, rb, testVars>>

\* cb.Write(d)
WriteCall ==
  /\ Idle
  /\ \E d \in Inputs : \E res \in {Write(cbNow, d)} :
           /\ SetBuffer(res.cb)
           /\ last' = [BufCall("Buffer.Write") EXCEPT
                       !.arg = d, !.n = res.n, !.err = res.err, !.cells = res.cells]
           /\ Q' = IF res.err = NoErr THEN Slice(d, 0, res.n) \o Q ELSE Q
           /\ unread' = unread \cup res.cells
  /\ UNCHANGED <<ir, off, history, rb, testVars>>

\* cb.Read(make([]byte, k))
BufReadCall ==
  /\ Idle
  /\ \E k \in 0..(MaxBufCap + 1) : \E res \in {Read(cbNow, Zeros(k))} :
           /\ SetBuffer(res.cb)
           /\ last' = [BufCall("Buffer.Read") EXCEPT
                       !.len = k, !.n = res.n, !.err = res.err, !.out = res.buf,
                       !.cells = res.cells]
           /\ Q' = DropLast(Q, res.n)
           /\ unread' = unread \ res.cells
  /\ UNCHANGED <<ir, off, history, rb, testVars>>

\* cb.ReadByte()
ReadByteCall ==
  /\ Idle
  /\ \E res \in {ReadByte(cbNow)} :
         /\ SetBuffer(res.cb)
         /\ last' = [BufCall("Buffer.ReadByte") EXCEPT
                     !.len = 1, !.n = IF res.err = NoErr THEN 1 ELSE 0,
                     !.err = res.err, !.out = <<res.byte>>,
                     !.cells = Read(cbNow, Zeros(1)).cells]
         /\ Q' = IF res.err = NoErr THEN DropLast(Q, 1) ELSE Q
         /\ unread' = unread \ Read(cbNow, Zeros(1)).cells
  /\ UNCHANGED <<ir, off, history, rb, testVars>>

\* cb.Omit(n); the cells it discards are those a Read of n bytes copies out
OmitCall ==
  /\ Idle
  /\ \E n \in 0..(MaxBufCap + 1) : \E res \in {Omit(cbNow, n)} :
       LET gone == IF res.err = NoErr THEN Read(cbNow, Zeros(n)).cells ELSE {}
       IN  /\ SetBuffer(res.cb)
           /\ last' = [BufCall("Buffer.Omit") EXCEPT
                       !.len = n, !.err = res.err, !.cells = gone]
           /\ Q' = IF res.err = NoErr THEN DropLast(Q, n) ELSE Q
           /\ unread' = unread \ gone
  /\ UNCHANGED <<ir, off, history, rb, testVars>>

NextBuf == ResetCall \/ WriteCall \/ BufReadCall \/ ReadByteCall \/ OmitCall \/ Return

SpecBuf == InitBuf /\ [][NextBuf]_vars

----------------------------------------------------------------------------
(* Both uses of the buffer: the runs of Spec and the runs of SpecBuf. *)

InitBoth == Init \/ InitBuf

NextBoth ==
  \/ (pc = "reader" /\ Next)
  \/ (pc = "buffer" /\ NextBuf)

SpecBoth == InitBoth /\ [][NextBoth]_vars

----------------------------------------------------------------------------
(* TestReaderRecoverEquals: the source is read in chunks into rb1 by a      *)
(* first reader, rb1 is read in the reversed chunks into rb2 by a second.   *)

\* mutant: the chunk sizes are not reversed
reverse_Same(b) == b

reverse(b) == [i \in 1..Len(b) |-> b[Len(b) + 1 - i]]

\* readUsing(chunkSpec, b, r) from chunk i on, o bytes of b being filled.
\* Returns [b, r, err].
RECURSIVE readUsingFrom(_, _, _, _, _)

\* lines 337-343: res is the result of r.Read(b[o : o+c])
readUsingNext(spec, b, i, o, res) ==
  IF res.err # NoErr
  THEN [b |-> CopyInto(b, o, o + spec[i], res.b), r |-> res.r, err |-> res.err]
  ELSE readUsingFrom(spec, CopyInto(b, o, o + spec[i], res.b), res.r, i + 1, o + spec[i])

readUsingFrom(spec, b, r, i, o) ==
  IF i > Len(spec) THEN [b |-> b, r |-> r, err |-> NoErr]
  ELSE IF ~ ValidSlice(o, o + spec[i], Len(b)) THEN [b |-> b, r |-> r, err |-> Panic]
  ELSE readUsingNext(spec, b, i, o, ReaderRead(r, Slice(b, o, o + spec[i])))

readUsing(spec, b, r) == readUsingFrom(spec, b, r, 1, 0)

\* the sequences of chunk sizes, each at least 1, that sum to n
RECURSIVE ChunkSpecs(_)
ChunkSpecs(n) ==
  IF n = 0 THEN {<<>>}
  ELSE UNION {{<<c>> \o rest : rest \in ChunkSpecs(n - c)} : c \in 1..n}

InitChunk ==
  /\ source \in Sources
  /\ chunkSpec \in ChunkSpecs(Len(source))
  /\ bufSizes \in (1..MaxCap) \X (1..MaxCap)
  /\ pc = "start"
  /\ ir = [buf |-> source]
  /\ off = 0
  /\ buffer = New(bufSizes[1]).cb.buffer
  /\ wpos = New(bufSizes[1]).cb.wpos
  /\ rpos = New(bufSizes[1]).cb.rpos
  /\ full = New(bufSizes[1]).cb.full
  /\ last = NoCall
  /\ history = "new"
  /\ rb = <<>>
  /\ Q = <<>>
  /\ unread = {}
  /\ rb1 = Zeros(Len(source))
  /\ rb2 = Zeros(Len(source))

\* lines 309-312: the first reader and its pass
FirstPass ==
  /\ pc = "start"
  /\ \E nr \in {NewReader([buf |-> source], Len(source), bufSizes[1])} :
     \E res \in {readUsing(chunkSpec, rb1, nr.r)} :
         /\ nr.err = NoErr
         /\ SetReader(res.r)
         /\ rb1' = res.b
         /\ last' = [NoCall EXCEPT !.op = "readUsing", !.err = res.err]
  /\ pc' = "first"
  /\ UNCHANGED <<history, rb, historyVars, chunkSpec, bufSizes, source, rb2>>

\* lines 314-317: the second reader, over rb1, and its pass
SecondPass ==
  /\ pc = "first"
  /\ last.err = NoErr
  /\ \E nr \in {NewReader([buf |-> rb1], Len(rb1), bufSizes[2])} :
     \E res \in {readUsing(reverse(chunkSpec), rb2, nr.r)} :
         /\ nr.err = NoErr
         /\ SetReader(res.r)
         /\ rb2' = res.b
         /\ last' = [NoCall EXCEPT !.op = "readUsing", !.err = res.err]
  /\ pc' = "done"
  /\ UNCHANGED <<history, rb, historyVars, chunkSpec, bufSizes, source, rb1>>

NextChunk == FirstPass \/ SecondPass

SpecChunk == InitChunk /\ [][NextChunk]_vars

----------------------------------------------------------------------------
(* Claims about the reader, checked under Spec. *)

\* the content of the source, and the n bytes of it that end at offset o
S == ir.buf
Window(o, n) == Slice(S, o - n, o)

\* the buffer as Reset leaves it
IsReset(cb) == cb.wpos = Len(cb.buffer) /\ cb.rpos = Len(cb.buffer) /\ ~ cb.full

\* C1: round trip.  The first call on a reader made at offset len(S), a Read
\* into len(S) bytes, returns len(S) and no error, and the output is S.
C1_RoundTrip ==
  (last.op = "Read" /\ last.history0 = "new" /\ last.len = Len(S))
    => (last.n = Len(S) /\ last.err = NoErr /\ last.out = S)

\* the round trip of a source longer than two buffers
C1_Witness ==
  /\ last.op = "Read" /\ last.history0 = "new" /\ last.len = Len(S)
  /\ Len(S) > 2 * Len(buffer)
  /\ Len(buffer) > 1
  /\ Len(last.fetches) = 3
  /\ last.out = S

\* C2: sequential reads.  On a reader used through Read only, a Read into n
\* bytes, 1 <= n <= Offset(), returns n and no error and the output is
\* S[o-n, o), o being Offset() before the call; the runs returned so far, each
\* placed before the earlier ones, are S[Offset(), len(S)), so that they are S
\* once Offset() is 0.
C2_Sequential ==
  /\ (last.op = "Read" /\ last.history0 # "readat"
        /\ 1 <= last.len /\ last.len <= last.offset0)
       => (last.n = last.len /\ last.err = NoErr
             /\ last.out = Window(last.offset0, last.len))
  /\ (history # "readat") => rb = Slice(S, Offset(rNow), Len(S))

\* a one-byte Read returns the first byte of the source, after the buffer was
\* refilled several times, and the bytes read so far are the source
C2_Witness ==
  /\ last.op = "Read" /\ last.history0 = "read"
  /\ last.len = 1 /\ last.offset0 = 1 /\ last.n = 1
  /\ last.out = <<S[1]>>
  /\ Len(S) > 2 * Len(buffer)
  /\ Len(buffer) > 1
  /\ Offset(rNow) = 0
  /\ rb = S

\* C3: ReadAt(out, t) with 1 <= len(out) = n <= t <= len(S) and t below the
\* tracked offset or above Offset() resets the buffer and returns n bytes and
\* no error, the bytes being S[t-n, t).
C3_ReseekOutside ==
  (last.op = "ReadAt" /\ 1 <= last.len /\ last.len <= last.t /\ last.t <= Len(S)
     /\ (last.t < last.off0 \/ last.t > last.offset0))
    => (IsReset(last.mid) /\ last.n = last.len /\ last.err = NoErr
          /\ last.out = Window(last.t, last.len))

\* a re-seek below the tracked offset that discards staged bytes and reads
\* more bytes than the buffer holds
C3_Witness ==
  /\ last.op = "ReadAt" /\ last.t < last.off0 /\ last.ra0 > 0
  /\ last.len > Len(buffer) /\ last.n = last.len
  /\ IsReset(last.mid)
  /\ last.out = Window(last.t, last.len)

\* a re-seek above Offset() that discards staged bytes
C3_WitnessAbove ==
  /\ last.op = "ReadAt" /\ last.t > last.offset0 /\ last.ra0 > 0
  /\ last.len > 1 /\ last.n = last.len
  /\ IsReset(last.mid)
  /\ last.out = Window(last.t, last.len)

\* C4: ReadAt(out, t) with tracked offset <= t <= Offset(), len(out) = n and
\* 1 <= n <= t returns n bytes and no error, the bytes being S[t-n, t).
C4_ReseekInside ==
  (last.op = "ReadAt" /\ last.off0 <= last.t /\ last.t <= last.offset0
     /\ 1 <= last.len /\ last.len <= last.t)
    => (last.n = last.len /\ last.err = NoErr /\ last.out = Window(last.t, last.len))

\* C5: ReadAt(out, t) with tracked offset <= t <= Offset() and
\* 1 <= len(out) <= t - tracked offset calls the source not once; a target
\* below the tracked offset or above Offset() resets the buffer.
C5_NoRoundTrip ==
  /\ (last.op = "ReadAt" /\ last.off0 <= last.t /\ last.t <= last.offset0
        /\ 1 <= last.len /\ last.len <= last.t - last.off0)
       => last.fetches = <<>>
  /\ (last.op = "ReadAt" /\ (last.t < last.off0 \/ last.t > last.offset0))
       => IsReset(last.mid)

\* C6: a Read into more bytes than Offset() returns Offset() and
\* ErrNoContent, and Offset() is 0 after it.
C6_Exhaustion ==
  (last.op = "Read" /\ last.len > last.offset0)
    => (last.n = last.offset0 /\ last.err = ErrNoContent /\ Offset(rNow) = 0)

\* after a re-seek, a Read into more bytes than Offset() drains the staged
\* bytes, refills the buffer twice or more and returns what was left
C6_Witness ==
  /\ last.op = "Read" /\ last.history0 = "readat"
  /\ last.len > last.offset0 /\ last.offset0 > 0 /\ last.ra0 > 0
  /\ Len(last.fetches) >= 2
  /\ last.n = last.offset0 /\ last.err = ErrNoContent
  /\ Offset(rNow) = 0

\* a Read on an exhausted reader
C6_WitnessExhausted ==
  /\ last.op = "Read" /\ last.offset0 = 0 /\ last.len > 0
  /\ last.n = 0 /\ last.err = ErrNoContent

\* C7: a Read that returns n bytes with no error or ErrNoContent lowers
\* Offset() by n; a ReadAt(out, t) that does leaves Offset() = t - n.
C7_OffsetAccounting ==
  /\ (last.op = "Read" /\ last.err \in {NoErr, ErrNoContent})
       => Offset(rNow) = last.offset0 - last.n
  /\ (last.op = "ReadAt" /\ last.err \in {NoErr, ErrNoContent})
       => Offset(rNow) = last.t - last.n

----------------------------------------------------------------------------
(* Claim about TestReaderRecoverEquals, checked under SpecChunk. *)

\* C8: chunked commutativity.  Neither pass returns an error, and the output
\* of the second pass, which reads the output of the first in the reversed
\* chunk sizes, is the source.
C8_ChunkedCommutativity ==
  /\ (pc \in {"first", "done"}) => last.err = NoErr
  /\ (pc = "done") => rb2 = source

\* both passes done with three or more chunks that are no palindrome, two
\* different capacities, and a first output that is not the source
C8_Witness ==
  /\ pc = "done"
  /\ last.err = NoErr
  /\ Len(chunkSpec) >= 3
  /\ chunkSpec # reverse(chunkSpec)
  /\ bufSizes[1] # bufSizes[2]
  /\ rb1 # source
  /\ rb2 = source

----------------------------------------------------------------------------
(* Claims about the buffer, checked under SpecBuf. *)

\* C9: the buffer behaves as the byte sequence Q: a Read into k >= 1 bytes
\* returns m = min(k, |Q|) and no error, and out[0..m) are the last m bytes of
\* Q in order (Q holds the accepted inputs, each placed before the earlier).
C9_ContentRefinement ==
  (last.op = "Buffer.Read" /\ last.len >= 1)
    => (last.n = min(last.len, Len(last.q0)) /\ last.err = NoErr
          /\ Slice(last.out, 0, last.n) = Last(last.q0, last.n))

\* C10: a Write stores into no cell that holds an unread byte, and every such
\* cell holds after the Write the byte it held before.
C10_UnreadKept ==
  (last.op = "Buffer.Write")
    => (/\ last.cells \cap last.unread0 = {}
        /\ \A i \in last.unread0 : buffer[i + 1] = last.cb0.buffer[i + 1])

\* a partial Write that wraps around index 0 while unread bytes are held
C10_Witness ==
  /\ last.op = "Buffer.Write"
  /\ last.err = NoErr
  /\ last.unread0 # {}
  /\ last.n < Len(last.arg)
  /\ 0 \in last.cells
  /\ (Len(buffer) - 1) \in last.cells
  /\ last.cb0.wpos > 0

\* C11: write accounting.  A Write of a non-empty input to a buffer whose
\* WriteAvailability() is w > 0 returns min(w, len(buf)) and no error, lowers
\* WriteAvailability() by the count and raises ReadAvailability() by it; with
\* w = 0 it returns 0 and the buffer-full error, with an empty input 0 and the
\* empty-input error, and in both cases the buffer is as it was.
C11_WriteAccounting ==
  (last.op = "Buffer.Write")
    => (/\ (Len(last.arg) > 0 /\ WriteAvailability(last.cb0) > 0)
             => (/\ last.n = (IF WriteAvailability(last.cb0) < Len(last.arg)
                              THEN WriteAvailability(last.cb0) ELSE Len(last.arg))
                 /\ last.err = NoErr
                 /\ WriteAvailability(cbNow) = WriteAvailability(last.cb0) - last.n
                 /\ ReadAvailability(cbNow) = last.ra0 + last.n)
        /\ (Len(last.arg) > 0 /\ WriteAvailability(last.cb0) = 0)
             => (last.n = 0 /\ last.err = ErrBufferFull /\ cbNow = last.cb0)
        /\ (Len(last.arg) = 0)
             => (last.n = 0 /\ last.err = ErrInputEmpty /\ cbNow = last.cb0))

\* a Write that accepts a part of its input and fills the buffer
C11_Witness ==
  /\ last.op = "Buffer.Write"
  /\ last.err = NoErr
  /\ last.ra0 > 0
  /\ 0 < last.n /\ last.n < Len(last.arg)
  /\ last.n = WriteAvailability(last.cb0)
  /\ full

\* a Write refused by a full buffer
C11_WitnessFull ==
  /\ last.op = "Buffer.Write"
  /\ Len(last.arg) > 0
  /\ last.cb0.full
  /\ last.err = ErrBufferFull
  /\ cbNow = last.cb0

\* what a caller can observe of a buffer: the two availabilities, the full
\* flag and the bytes a Read of everything returns
Observed(cb) ==
  [ra |-> ReadAvailability(cb), wa |-> WriteAvailability(cb), full |-> cb.full,
   bytes |-> Slice(Read(cb, Zeros(Size(cb))).buf, 0, Read(cb, Zeros(Size(cb))).n)]

\* C12: Omit(n) with 1 <= n <= ReadAvailability() returns no error and leaves
\* the buffer observationally equal to the one a Read into n bytes leaves:
\* ReadAvailability() lower by n, WriteAvailability() higher by n, full
\* cleared, the same bytes returned by later reads.  Omit(n) with n < 1 or
\* n > ReadAvailability() returns an error and leaves wpos, rpos and full.
C12_OmitAsRead ==
  (last.op = "Buffer.Omit")
    => (/\ (1 <= last.len /\ last.len <= last.ra0)
             => (/\ last.err = NoErr
                 /\ ReadAvailability(cbNow) = last.ra0 - last.len
                 /\ WriteAvailability(cbNow) = WriteAvailability(last.cb0) + last.len
                 /\ ~ full
                 /\ Observed(cbNow) = Observed(Read(last.cb0, Zeros(last.len)).cb))
        /\ (last.len < 1 \/ last.len > last.ra0)
             => (/\ last.err # NoErr
                 /\ wpos = last.cb0.wpos /\ rpos = last.cb0.rpos /\ full = last.cb0.full))

----------------------------------------------------------------------------
(* Further claims about the reader, checked under Spec. *)

\* C13: a Read or ReadAt with a zero-length output returns 0 and
\* ErrInvalidArguments, calls the source not once and leaves Offset() and the
\* staged bytes as they were.
C13_ZeroLength ==
  (last.op \in {"Read", "ReadAt"} /\ last.len = 0)
    => (/\ last.n = 0 /\ last.err = ErrInvalidArguments
        /\ last.fetches = <<>>
        /\ Offset(rNow) = last.offset0
        /\ Observed(cbNow).bytes = Observed(last.cb0).bytes)

\* C13 as the code has it: a Read or ReadAt with a zero-length output returns
\* 0 and ErrInvalidArguments and calls the source not once.  The Read leaves
\* the reader as it was.  The ReadAt(out, t) has repositioned the reader
\* before its output is looked at: the tracked offset is t, the storage is
\* untouched, and with t below the tracked offset or above Offset() the buffer
\* is reset, so that Offset() is t.
C13_ZeroLengthRepositions ==
  /\ (last.op = "Read" /\ last.len = 0)
       => (/\ last.n = 0 /\ last.err = ErrInvalidArguments
           /\ last.fetches = <<>>
           /\ off = last.off0 /\ cbNow = last.cb0)
  /\ (last.op = "ReadAt" /\ last.len = 0)
       => (/\ last.n = 0 /\ last.err = ErrInvalidArguments
           /\ last.fetches = <<>>
           /\ off = last.t
           /\ buffer = last.cb0.buffer
           /\ (last.t < last.off0 \/ last.t > last.offset0)
                => (IsReset(cbNow) /\ Offset(rNow) = last.t))

\* a ReadAt with a zero-length output that discards the staged bytes and
\* moves Offset()
C13_Witness ==
  /\ last.op = "ReadAt" /\ last.len = 0
  /\ last.err = ErrInvalidArguments
  /\ last.ra0 > 0
  /\ last.t < last.off0
  /\ Offset(rNow) = last.t
  /\ Offset(rNow) # last.offset0

\* a Read with a zero-length output on an exhausted reader
C13_WitnessExhausted ==
  /\ last.op = "Read" /\ last.len = 0
  /\ last.offset0 = 0
  /\ last.history0 # "new"
  /\ last.err = ErrInvalidArguments

\* C14: staging window.  Between calls the tracked offset is not negative,
\* Offset() is at most len(S), and the unread bytes the buffer holds are
\* S[tracked offset, tracked offset + ReadAvailability()), in source order.
C14_StagingWindow ==
  /\ off >= 0
  /\ Offset(rNow) <= Len(S)
  /\ Observed(cbNow).bytes = Slice(S, off, Offset(rNow))

\* C15: fetch window.  Every call to the source is made when
\* ReadAvailability() is 0, asks for w = min(capacity, tracked offset) bytes,
\* w >= 1, at the offset tracked offset - w, which is not negative; after a
\* completed refill the tracked offset is that offset and Offset() is what it
\* was before the refill.
C15_FetchWindow ==
  \A i \in 1..Len(last.fetches) :
    /\ last.fetches[i].ra = 0
    /\ last.fetches[i].size =
         (IF Len(buffer) < last.fetches[i].tracked THEN Len(buffer)
          ELSE last.fetches[i].tracked)
    /\ last.fetches[i].size >= 1
    /\ last.fetches[i].size <= Len(buffer)
    /\ last.fetches[i].at = last.fetches[i].tracked - last.fetches[i].size
    /\ last.fetches[i].at >= 0
    /\ last.fetches[i].ok
         => (/\ last.fetches[i].off1 = last.fetches[i].at
             /\ last.fetches[i].off1 + last.fetches[i].ra1
                  = last.fetches[i].tracked + last.fetches[i].ra)

\* a call that fetches a window of the whole capacity and then, the tracked
\* offset being below the capacity, a shorter one that starts at offset 0
C15_Witness ==
  /\ last.op \in {"Read", "ReadAt"}
  /\ Len(last.fetches) >= 2
  /\ Len(buffer) >= 2
  /\ last.fetches[1].size = Len(buffer)
  /\ last.fetches[Len(last.fetches)].size < Len(buffer)
  /\ last.fetches[Len(last.fetches)].at = 0
  /\ last.fetches[Len(last.fetches)].ok

----------------------------------------------------------------------------
(* Further claims about the buffer, checked under SpecBuf. *)

\* C16: full flag.  full is set exactly when the buffer holds capacity unread
\* bytes (ReadAvailability() is the capacity and WriteAvailability() is 0),
\* full implies wpos = rpos, and ReadAvailability() is the number of bytes
\* accepted by Writes since the last Reset less the number returned by Reads
\* or discarded by Omits.
C16_FullFlag ==
  /\ full <=> (ReadAvailability(cbNow) = Len(buffer) /\ WriteAvailability(cbNow) = 0)
  /\ full => wpos = rpos
  /\ ReadAvailability(cbNow) = Len(Q)

\* C18: the internal checks never fire.  Over a source that returns every
\* range asked for, a Read or ReadAt with a non-empty output and a target
\* within 0..len(S) returns no error or ErrNoContent: never ErrInternal,
\* never an error of the buffer's Write or Read.
C18_NoInternalError ==
  (last.op \in {"Read", "ReadAt"} /\ last.len > 0)
    => last.err \in {NoErr, ErrNoContent}

\* a ReadAt with a target inside the staged window that drains the staged
\* bytes and refills the buffer twice, every check of the loop passing
C18_Witness ==
  /\ last.op = "ReadAt" /\ last.len > 0
  /\ last.off0 <= last.t /\ last.t <= last.offset0
  /\ last.ra0 > 0
  /\ Len(last.fetches) >= 2
  /\ last.iters >= 3
  /\ last.n = last.len
  /\ last.err = NoErr


\* the number of bytes the last Read or ReadAt set out to read: len(b) or,
\* if it is less, Offset() when Reader.Read was entered
ToRead ==
  IF last.op = "ReadAt"
  THEN (IF last.len > last.t + ReadAvailability(last.mid)
        THEN last.t + ReadAvailability(last.mid) ELSE last.len)
  ELSE (IF last.len > last.offset0 THEN last.offset0 ELSE last.len)

\* C19: termination of Read.  Over a source that returns every range asked
\* for, the loop of a Read (or of the Read a ReadAt ends with) is left through
\* its condition, no iteration draining zero bytes (the buffer's Read refuses
\* an empty target); each iteration drains one byte or more, so the
\* iterations are at most the bytes read, and the bytes read are exactly the
\* number the call set out to read, never more.
C19_Termination ==
  (last.op \in {"Read", "ReadAt"} /\ last.len > 0)
    => (/\ last.err \notin {ErrTargetEmpty, ErrInternal, Panic}
        /\ last.iters <= last.n
        /\ last.n = ToRead
        /\ last.n <= last.len)

\* a Read of several bytes through a buffer of one byte: as many iterations
\* as bytes
C19_Witness ==
  /\ last.op = "Read"
  /\ Len(buffer) = 1
  /\ last.n >= 3
  /\ last.iters = last.n
  /\ Len(last.fetches) = last.n

\* a Read that takes fewer iterations than bytes
C19_WitnessFewer ==
  /\ last.op = "Read"
  /\ last.iters >= 2
  /\ last.iters < last.n
  /\ last.ra0 > 0

----------------------------------------------------------------------------
(* Claim about the reader over a source that fails, checked under SpecFault. *)

\* whether the source fails on the i-th call the last Read or ReadAt made to it
SourceFails(i) ==
  \E k \in ir.bad :
    /\ last.fetches[i].at <= k
    /\ k < last.fetches[i].at + last.fetches[i].size

\* C17: when the source returns an error to a call made by a Read or ReadAt,
\* the Read or ReadAt returns that error, makes no further call to the
\* source, stores nothing in the buffer and leaves the tracked offset where
\* it was when the call to the source was made.
C17_SourceError ==
  \A i \in 1..Len(last.fetches) :
    SourceFails(i)
      => (/\ last.err = ErrSource
          /\ last.n = 0
          /\ i = Len(last.fetches)
          /\ ~ last.fetches[i].ok
          /\ cbNow = last.fetches[i].cb
          /\ ReadAvailability(cbNow) = 0
          /\ off = last.fetches[i].tracked
          /\ off # last.fetches[i].at)

\* a call that refills the buffer once, drains it, and whose second call to
\* the source fails after the source has read a part of the range
C17_Witness ==
  /\ last.op \in {"Read", "ReadAt"}
  /\ Len(last.fetches) = 2
  /\ last.fetches[1].ok
  /\ SourceFails(2)
  /\ last.fetches[2].at \notin ir.bad
  /\ last.err = ErrSource
  /\ off = last.fetches[2].tracked

----------------------------------------------------------------------------
(* Claim about the buffer alone and the buffer of a reader, checked under   *)
(* SpecBoth.                                                                *)

\* C20: index safety.  In every state reached by the calls of the buffer and
\* by the Read and ReadAt of a reader, wpos, rpos and WriteAvailability() are
\* within 0..capacity, and no call has panicked: every slice expression of
\* Buffer.Write, Buffer.Read and Reader.Read had 0 <= low <= high <= length.
C20_IndexSafety ==
  /\ 0 <= wpos /\ wpos <= Len(buffer)
  /\ 0 <= rpos /\ rpos <= Len(buffer)
  /\ 0 <= WriteAvailability(cbNow) /\ WriteAvailability(cbNow) <= Len(buffer)
  /\ last.err # Panic

\* a Read of the buffer that copies two runs, one below rpos and one at the
\* end of the storage, from a buffer whose Write had wrapped too
C20_Witness ==
  /\ pc = "buffer"
  /\ last.op = "Buffer.Read" /\ last.err = NoErr
  /\ last.cb0.rpos > 0
  /\ last.n > last.cb0.rpos
  /\ last.cb0.wpos > last.cb0.rpos
  /\ rpos = Len(buffer) - (last.n - last.cb0.rpos)

\* a Read of the reader that drains the staged bytes and refills a buffer
\* left at wpos = 0
C20_WitnessReader ==
  /\ pc = "reader"
  /\ last.op = "Read" /\ last.err = NoErr
  /\ last.cb0.wpos = 0
  /\ last.ra0 > 0
  /\ Len(last.fetches) >= 1
  /\ last.n > last.ra0

====
